---- MODULE Spec2Model ----
(***************************************************************************)
(* Huffman coder of src/main.cpp: frequency count, priority-queue merge    *)
(* loop, code table, encode, decode, freeTree.                             *)
(*                                                                         *)
(* Characters are one-letter strings, a std::string is a sequence of them. *)
(* A Node* is an index into the heap `nodes` (allocation order), NULL is   *)
(* nullptr and WILD is a non-null pointer to no live Node.                 *)
(***************************************************************************)
EXTENDS Integers, Sequences, FiniteSets, TLC

VARIABLES text, pc, freq, todo, nodes, pq, merges, root, topOnEmpty,
          codes, encoded, stream, pos, current, result, deleted, fidx

vars == <<text, pc, freq, todo, nodes, pq, merges, root, topOnEmpty,
          codes, encoded, stream, pos, current, result, deleted, fidx>>

RECURSIVE CountFreq(_)
RECURSIVE buildCodes(_, _, _)
RECURSIVE buildCodesSameBit(_, _, _)
RECURSIVE encode(_, _)
RECURSIVE freeTree(_, _)
RECURSIVE freeTreeLeftOnly(_, _)
RECURSIVE PathCount(_, _, _)
RECURSIVE LeafSeq(_, _)
RECURSIVE SumOver(_, _)
RECURSIVE LeastCost(_, _, _, _)

(* ------------------------------ bounds -------------------------------- *)

MaxLen == 3

MaxStream == 3

Alphabet == {"a", "b", "c"}

Abracadabra == <<"a", "b", "r", "a", "c", "a", "d", "a", "b", "r", "a">>

ShortTexts == UNION {[1..n -> Alphabet] : n \in 0..MaxLen}

Texts == ShortTexts \cup {Abracadabra}

Bits == {"0", "1"}

StreamChars == Bits \cup {"x"}

Streams == UNION {[1..n -> StreamChars] : n \in 0..MaxStream}

(* ------------------------------ values -------------------------------- *)

NULL == 0

WILD == 0 - 1

NUL == "NUL"

GARBAGE == "GARBAGE"

EmptyMap == [x \in {} |-> <<>>]

Node(c, f) == [ch |-> c, freq |-> f, left |-> NULL, right |-> NULL]

Valid(h, p) == p \in DOMAIN h

(* Compare with the comparison turned round: a max-heap. *)
CompareReversed(h, a, b) == h[a].freq < h[b].freq

(* Compare::operator(): a has lower priority than b. *)
Compare(h, a, b) == h[a].freq > h[b].freq

(* priority_queue::top(): an element that no other element outranks; which *)
(* one among equal frequencies depends on the heap layout, itself fixed by *)
(* the unspecified iteration order of the unordered_map.                   *)
Tops(h, q) == {t \in q : \A m \in q : ~Compare(h, t, m)}

IsLeaf(h, p) == h[p].left = NULL /\ h[p].right = NULL

(* for (char ch : text) freq[ch]++; *)
CountFreq(t) ==
    IF t = <<>> THEN EmptyMap
    ELSE LET f == CountFreq(SubSeq(t, 1, Len(t) - 1))
             c == t[Len(t)]
         IN  IF c \in DOMAIN f THEN [f EXCEPT ![c] = @ + 1]
                               ELSE (c :> 1) @@ f

(* the loop guard stopping one merge early *)
MergeGuardOffByOne(q) == Cardinality(q) > 2

(* while (pq.size() > 1) *)
MergeGuard(q) == Cardinality(q) > 1

(* buildCodes appending "0" on both sides *)
buildCodesSameBit(h, node, code) ==
    IF node = NULL THEN EmptyMap
    ELSE IF IsLeaf(h, node) THEN (h[node].ch :> code)
    ELSE buildCodesSameBit(h, h[node].right, Append(code, "0"))
            @@ buildCodesSameBit(h, h[node].left, Append(code, "0"))

(* buildCodes: a later codes[ch] = code overwrites an earlier one. *)
buildCodes(h, node, code) ==
    IF node = NULL THEN EmptyMap
    ELSE IF IsLeaf(h, node) THEN (h[node].ch :> code)
    ELSE buildCodes(h, h[node].right, Append(code, "1"))
            @@ buildCodes(h, h[node].left, Append(code, "0"))

(* encode: concatenation of codes.at(ch); called only when every ch is a key. *)
encode(t, c) ==
    IF t = <<>> THEN <<>>
    ELSE encode(SubSeq(t, 1, Len(t) - 1), c) \o c[t[Len(t)]]

(* decode without the return to root *)
ResetKeep(r, cur) == cur

(* current = root after a leaf has been emitted *)
Reset(r, cur) == r

(* freeTree recursing into the left child twice *)
freeTreeLeftOnly(h, node) ==
    IF node = NULL THEN <<>>
    ELSE freeTreeLeftOnly(h, h[node].left) \o freeTreeLeftOnly(h, h[node].left)
            \o <<node>>

(* freeTree: the pointers handed to delete, in order. *)
freeTree(h, node) ==
    IF node = NULL THEN <<>>
    ELSE freeTree(h, h[node].left) \o freeTree(h, h[node].right) \o <<node>>

(* ------------------------------ program ------------------------------- *)

(* getline has read the line; nothing else has run *)
InitOn(inputs) ==
    /\ text \in inputs
    /\ pc = "count"
    /\ freq = EmptyMap
    /\ todo = {}
    /\ nodes = <<>>
    /\ pq = {}
    /\ merges = 0
    /\ root = NULL
    /\ topOnEmpty = FALSE
    /\ codes = EmptyMap
    /\ encoded = <<>>
    /\ stream = <<>>
    /\ pos = 0
    /\ current = NULL
    /\ result = <<>>
    /\ deleted = <<>>
    /\ fidx = 0

Init == InitOn(Texts)

(* lines 102-105 *)
Count ==
    /\ pc = "count"
    /\ freq' = CountFreq(text)
    /\ todo' = DOMAIN freq'
    /\ pc' = IF todo' = {} THEN "merge" ELSE "push"
    /\ UNCHANGED <<text, nodes, pq, merges, root, topOnEmpty, codes, encoded,
                   stream, pos, current, result, deleted, fidx>>

(* lines 112-114, one iteration; the map's iteration order is unspecified *)
PushLeaf ==
    /\ pc = "push"
    /\ \E c \in todo :
          /\ nodes' = Append(nodes, Node(c, freq[c]))
          /\ pq' = pq \cup {Len(nodes) + 1}
          /\ todo' = todo \ {c}
          /\ pc' = IF todo' = {} THEN "merge" ELSE "push"
    /\ UNCHANGED <<text, freq, merges, root, topOnEmpty, codes, encoded,
                   stream, pos, current, result, deleted, fidx>>

(* lines 117-127, one iteration *)
Merge ==
    /\ pc = "merge"
    /\ MergeGuard(pq)
    /\ \E l \in Tops(nodes, pq) :
         \E r \in Tops(nodes, pq \ {l}) :
            LET merged == Len(nodes) + 1
            IN  /\ nodes' = Append(nodes,
                       [ch |-> NUL, freq |-> nodes[l].freq + nodes[r].freq,
                        left |-> l, right |-> r])
                /\ pq' = (pq \ {l, r}) \cup {merged}
    /\ merges' = merges + 1
    /\ UNCHANGED <<text, pc, freq, todo, root, topOnEmpty, codes, encoded,
                   stream, pos, current, result, deleted, fidx>>

(* line 129 on a non-empty queue *)
Top ==
    /\ pc = "merge"
    /\ ~MergeGuard(pq)
    /\ pq # {}
    /\ root' \in Tops(nodes, pq)
    /\ pc' = "codes"
    /\ UNCHANGED <<text, freq, todo, nodes, pq, merges, topOnEmpty, codes,
                   encoded, stream, pos, current, result, deleted, fidx>>

(* line 129 on an empty queue: top() reads the front of an empty vector,   *)
(* which is undefined: the read faults, or yields a null or a stray value. *)
TopEmpty ==
    /\ pc = "merge"
    /\ ~MergeGuard(pq)
    /\ pq = {}
    /\ topOnEmpty' = TRUE
    /\ \E outcome \in {"fault", "null", "stray"} :
          /\ pc' = IF outcome = "fault" THEN "crashed" ELSE "codes"
          /\ root' = IF outcome = "stray" THEN WILD ELSE NULL
    /\ UNCHANGED <<text, freq, todo, nodes, pq, merges, codes, encoded,
                   stream, pos, current, result, deleted, fidx>>

(* lines 132-133; buildCodes on a stray pointer reads no live Node: it      *)
(* faults, or the bytes read look like a leaf or like a childless walk.     *)
BuildCodes ==
    /\ pc = "codes"
    /\ IF root = WILD
       THEN \E outcome \in {"fault", "leaf", "none"} :
               /\ pc' = IF outcome = "fault" THEN "crashed" ELSE "encode"
               /\ codes' = IF outcome = "leaf" THEN (GARBAGE :> <<>>) ELSE EmptyMap
       ELSE /\ codes' = buildCodes(nodes, root, <<>>)
            /\ pc' = "encode"
    /\ UNCHANGED <<text, freq, todo, nodes, pq, merges, root, topOnEmpty,
                   encoded, stream, pos, current, result, deleted, fidx>>

(* line 142; codes.at throws std::out_of_range on a missing key, uncaught *)
Encode ==
    /\ pc = "encode"
    /\ IF \A i \in 1..Len(text) : text[i] \in DOMAIN codes
       THEN /\ encoded' = encode(text, codes)
            /\ pc' = "decodecall"
       ELSE /\ encoded' = encoded
            /\ pc' = "crashed"
    /\ UNCHANGED <<text, freq, todo, nodes, pq, merges, root, topOnEmpty,
                   codes, stream, pos, current, result, deleted, fidx>>

(* line 146 with lines 68-69: decode(encoded, root) is entered *)
DecodeCall ==
    /\ pc = "decodecall"
    /\ stream' = encoded
    /\ current' = root
    /\ result' = <<>>
    /\ pos' = 0
    /\ pc' = "decode"
    /\ UNCHANGED <<text, freq, todo, nodes, pq, merges, root, topOnEmpty,
                   codes, encoded, deleted, fidx>>

(* decode(s, root) entered on the built tree with an arbitrary stream s *)
DecodeStream ==
    /\ pc = "codes"
    /\ \E s \in Streams : stream' = s
    /\ current' = root
    /\ result' = <<>>
    /\ pos' = 0
    /\ pc' = "decode"
    /\ UNCHANGED <<text, freq, todo, nodes, pq, merges, root, topOnEmpty,
                   codes, encoded, deleted, fidx>>

(* lines 72-83, one iteration. Reading a child through a pointer that is   *)
(* null or stray is undefined: the read faults, or the bytes read pass the *)
(* leaf test (a stray character is emitted) or fail it.                    *)
DecodeStep ==
    /\ pc = "decode"
    /\ pos < Len(stream)
    /\ pos' = pos + 1
    /\ LET bit  == stream[pos + 1]
           next == IF ~Valid(nodes, current) THEN WILD
                   ELSE IF bit = "0" THEN nodes[current].left
                                     ELSE nodes[current].right
       IN  IF Valid(nodes, next)
           THEN /\ pc' = "decode"
                /\ IF IsLeaf(nodes, next)
                   THEN /\ result' = Append(result, nodes[next].ch)
                        /\ current' = Reset(root, next)
                   ELSE /\ result' = result
                        /\ current' = next
           ELSE \E outcome \in {"fault", "leaf", "inner"} :
                   /\ pc' = IF outcome = "fault" THEN "crashed" ELSE "decode"
                   /\ result' = IF outcome = "leaf" THEN Append(result, GARBAGE)
                                                    ELSE result
                   /\ current' = IF outcome = "leaf" THEN Reset(root, next)
                                                     ELSE next
    /\ UNCHANGED <<text, freq, todo, nodes, pq, merges, root, topOnEmpty,
                   codes, encoded, stream, deleted, fidx>>

(* line 85, then line 150 is next *)
DecodeReturn ==
    /\ pc = "decode"
    /\ pos = Len(stream)
    /\ pc' = "free"
    /\ fidx' = 0
    /\ UNCHANGED <<text, freq, todo, nodes, pq, merges, root, topOnEmpty,
                   codes, encoded, stream, pos, current, result, deleted>>

(* line 150 on a null root or a root of the heap: one delete per step *)
FreeStep ==
    /\ pc = "free"
    /\ root # WILD
    /\ fidx < Len(freeTree(nodes, root))
    /\ deleted' = Append(deleted, freeTree(nodes, root)[fidx + 1])
    /\ fidx' = fidx + 1
    /\ UNCHANGED <<text, pc, freq, todo, nodes, pq, merges, root, topOnEmpty,
                   codes, encoded, stream, pos, current, result>>

(* freeTree has returned; line 152 *)
FreeReturn ==
    /\ pc = "free"
    /\ root # WILD
    /\ fidx = Len(freeTree(nodes, root))
    /\ pc' = "done"
    /\ UNCHANGED <<text, freq, todo, nodes, pq, merges, root, topOnEmpty,
                   codes, encoded, stream, pos, current, result, deleted, fidx>>

(* line 150 on a stray root: reading its children is undefined *)
FreeStray ==
    /\ pc = "free"
    /\ root = WILD
    /\ \E outcome \in {"fault", "return"} :
          pc' = IF outcome = "fault" THEN "crashed" ELSE "done"
    /\ UNCHANGED <<text, freq, todo, nodes, pq, merges, root, topOnEmpty,
                   codes, encoded, stream, pos, current, result, deleted, fidx>>

Next ==
    \/ Count
    \/ PushLeaf
    \/ Merge
    \/ Top
    \/ TopEmpty
    \/ BuildCodes
    \/ Encode
    \/ DecodeCall
    \/ DecodeStep
    \/ DecodeReturn
    \/ FreeStep
    \/ FreeReturn
    \/ FreeStray

Spec == Init /\ [][Next]_vars

(* The tree builder followed by decode on an arbitrary stream. *)
NextDecode ==
    \/ Count
    \/ PushLeaf
    \/ Merge
    \/ Top
    \/ TopEmpty
    \/ DecodeStream
    \/ DecodeStep
    \/ DecodeReturn
    \/ FreeStep
    \/ FreeReturn
    \/ FreeStray

InitDecode == InitOn(ShortTexts)

SpecDecode == InitDecode /\ [][NextDecode]_vars

(* ----------------------------- properties ----------------------------- *)

N == Cardinality(DOMAIN freq)

(* the merge loop has ended and line 129 has set root *)
TreeBuilt == pc \in {"codes", "encode", "decodecall", "decode", "free", "done"}

(* line 133 has filled the code table *)
CodesBuilt == pc \in {"encode", "decodecall", "decode", "free", "done"}

OverBits(s) == \A i \in 1..Len(s) : s[i] \in Bits

IsPrefix(u, v) == Len(u) <= Len(v) /\ SubSeq(v, 1, Len(u)) = u

SumOver(f, S) ==
    IF S = {} THEN 0
    ELSE LET x == CHOOSE y \in S : TRUE
         IN  f[x] + SumOver(f, S \ {x})

(* number of parent-to-child paths from node `from` to node n *)
PathCount(h, from, n) ==
    IF from = NULL THEN 0
    ELSE (IF from = n THEN 1 ELSE 0)
            + PathCount(h, h[from].left, n) + PathCount(h, h[from].right, n)

(* the leaves below node, left to right *)
LeafSeq(h, node) ==
    IF node = NULL THEN <<>>
    ELSE IF IsLeaf(h, node) THEN <<node>>
    ELSE LeafSeq(h, h[node].left) \o LeafSeq(h, h[node].right)

Occurrences(s, x) == Cardinality({i \in 1..Len(s) : s[i] = x})

(* sum of frequency(symbol) * length(code(symbol)) *)
Cost(fr, c) == SumOver([s \in DOMAIN fr |-> fr[s] * Len(c[s])], DOMAIN fr)

(* The least weighted length of a binary prefix code for fr. A binary      *)
(* prefix code with code lengths l exists exactly when the sum of          *)
(* 2^(-l[s]) is at most 1 (Kraft); lengths above the number n of symbols   *)
(* never lower the sum. LeastCost gives the symbols of S their lengths one *)
(* by one, a length l using up 2^(n - l) of a budget of 2^n and leaving at *)
(* least 1 for each symbol still without a length.                         *)
LeastCost(fr, n, S, budget) ==
    IF S = {} THEN 0
    ELSE LET x == CHOOSE y \in S : TRUE
             fits == {l \in 0..n : 2^(n - l) <= budget}
             costs == {fr[x] * l + LeastCost(fr, n, S \ {x}, budget - 2^(n - l)) :
                          l \in {k \in fits :
                                   Cardinality(S) - 1 <= budget - 2^(n - k)}}
         IN  CHOOSE m \in costs : \A k \in costs : m <= k

MinCost(fr) ==
    LET n == Cardinality(DOMAIN fr)
    IN  LeastCost(fr, n, DOMAIN fr, 2^n)

(* C1: for every non-empty text, once decode(encode(text, codes), root)    *)
(* has returned, its result equals text.                                   *)
RoundTrip ==
    (text # <<>> /\ pc \in {"free", "done"}) => result = text

(* C2: in the built code table no symbol's code is a prefix of another     *)
(* symbol's code.                                                          *)
PrefixFree ==
    CodesBuilt =>
        \A s \in DOMAIN codes : \A t \in DOMAIN codes :
            s # t => ~IsPrefix(codes[s], codes[t])

PrefixFreeWitness ==
    /\ CodesBuilt
    /\ Cardinality(DOMAIN codes) >= 3
    /\ \E s \in DOMAIN codes : Len(codes[s]) = 2

TruncatedStreamRejected ==
    (N >= 2 /\ OverBits(stream) /\ pc \in {"free", "done"}) => current = root

(* C5: decode never consumes a character other than '0' or '1': once one   *)
(* has been read, decode is neither running on nor returned normally.      *)
InvalidCharRejected ==
    (N >= 2 /\ \E k \in 1..pos : stream[k] \notin Bits)
        => pc \notin {"decode", "free", "done"}

(* C6: every code of the table built from a non-empty text is a non-empty  *)
(* string of bits.                                                         *)
NonEmptyCodes ==
    (text # <<>> /\ CodesBuilt) =>
        \A s \in DOMAIN codes : codes[s] # <<>> /\ OverBits(codes[s])

(* C7: on the empty text the root is null, the top of the empty queue is   *)
(* never read, and the code table is empty.                                *)
EmptyInputNullRoot ==
    (text = <<>> /\ pc \notin {"count", "push", "merge"}) =>
        /\ ~topOnEmpty
        /\ root = NULL
        /\ pc # "crashed"
        /\ CodesBuilt => codes = EmptyMap

(* C8: with at least one symbol, after the merge loop every allocated node *)
(* lies on exactly one path from root; nothing is deleted while buildCodes *)
(* or decode can still read the tree; no node is deleted twice; and when   *)
(* freeTree(root) has returned every node has been deleted exactly once.   *)
ExactlyOnceRelease ==
    (N >= 1 /\ TreeBuilt) =>
        /\ \A n \in DOMAIN nodes : PathCount(nodes, root, n) = 1
        /\ pc \in {"codes", "encode", "decodecall", "decode"} => deleted = <<>>
        /\ \A n \in DOMAIN nodes : Occurrences(deleted, n) <= 1
        /\ \A i \in 1..Len(deleted) : deleted[i] \in DOMAIN nodes
        /\ pc = "done" => \A n \in DOMAIN nodes : Occurrences(deleted, n) = 1

ExactlyOnceWitness ==
    /\ pc = "done"
    /\ N = 3
    /\ Len(nodes) = 5
    /\ Len(deleted) = 5

(* C9: with N >= 1 symbols, when the merge loop ends the queue holds one   *)
(* tree with exactly N leaves, one per symbol with that symbol's count,    *)
(* and the loop has merged exactly N - 1 times.                            *)
LeafCount ==
    (N >= 1 /\ TreeBuilt) =>
        LET leaves == LeafSeq(nodes, root)
        IN  /\ pq = {root}
            /\ Len(leaves) = N
            /\ {<<nodes[leaves[i]].ch, nodes[leaves[i]].freq>> : i \in 1..Len(leaves)}
                  = {<<s, freq[s]>> : s \in DOMAIN freq}
            /\ merges = N - 1

LeafCountWitness ==
    /\ TreeBuilt
    /\ N = 3
    /\ merges = 2
    /\ \E s \in DOMAIN freq : freq[s] = 1

(* C10: on a tree of at least two symbols and a stream of bits, at the     *)
(* start of every iteration of decode current is an internal node; the     *)
(* iteration follows an existing child, emits that child's symbol exactly  *)
(* when it is a leaf and then resets current to root.                      *)
DecoderPointerSafe ==
    [][(pc = "decode" /\ N >= 2 /\ OverBits(stream)) =>
          /\ Valid(nodes, current)
          /\ ~IsLeaf(nodes, current)
          /\ pos < Len(stream) =>
                LET next == IF stream[pos + 1] = "0" THEN nodes[current].left
                                                     ELSE nodes[current].right
                IN  /\ Valid(nodes, next)
                    /\ pc' = "decode"
                    /\ IsLeaf(nodes, next) =>
                          /\ result' = Append(result, nodes[next].ch)
                          /\ current' = root
                    /\ ~IsLeaf(nodes, next) =>
                          /\ result' = result
                          /\ current' = next]_vars

DecoderPointerWitness ==
    /\ pc = "decode"
    /\ N >= 3
    /\ OverBits(stream)
    /\ pos >= 2
    /\ Len(result) >= 1
    /\ current # root
    /\ Valid(nodes, current)

====
